---- MODULE Spec2Model ----
(***************************************************************************)
(* A model of terna-py's TernaPandasClient (src/terna/terna.py): the token *)
(* cache, the shared rate limiter, the request dispatcher, the response    *)
(* transformer and the timestamp normalizer.                               *)
(*                                                                         *)
(* Time of the client is counted in tenths of a second, from the present:  *)
(* the wall clock (datetime.datetime.now) and the monotonic clock          *)
(* (time.monotonic) both read Now, and a tick of the clock makes every     *)
(* stored time one tenth older.  A stored time stops ageing where the code *)
(* can no longer tell it from an older one, which keeps the state space    *)
(* finite without bounding the length of a run.  Timestamps of a payload   *)
(* are naive wall-clock minutes counted from 2023-01-01 00:00.             *)
(***************************************************************************)
EXTENDS Integers, Sequences, FiniteSets, TLC

VARIABLES
    api_key,              \* the api_key __init__ was called with, self.api_key
    api_secret,           \* the api_secret __init__ was called with, self.api_secret
    raised,               \* what __init__ raised: with an exception there is no client
    timeout,              \* self.timeout
    token,                \* self.token
    token_expiration,     \* self.token_expiration
    time_of_last_request, \* self.time_of_last_request
    pc,                   \* per caller: position in the running fetch
    wake,                 \* per caller: end of the rate limiter's sleep
    delay,                \* per caller: ticks since its next step became possible
    access_token,         \* per caller: _base_request's local access_token
    calls,                \* per caller: HTTP calls sent by the current fetch
    ret,                  \* per caller: what the fetch returned or raised
    lastCall,             \* the transport: the last HTTP call sent
    dt,                   \* normalizer run: the naive input timestamp
    adjusted,             \* normalizer run: what _adjust_tz returned
    json,                 \* transformer run: the payload of a 200 response
    df                    \* transformer run: what the transformer returned

vars == <<api_key, api_secret, raised, timeout, token, token_expiration, time_of_last_request, pc, wake, delay,
          access_token, calls, ret, lastCall, dt, adjusted, json, df>>

clientVars == <<api_key, api_secret, raised, timeout, token, token_expiration, time_of_last_request, pc, wake,
                delay, access_token, calls, ret, lastCall>>

runVars == <<dt, adjusted, json, df>>

argVars == <<api_key, api_secret, raised>>

None == "None"

(***************************************************************************)
(* Europe/Rome in 2023, on the naive minute line.                          *)
(***************************************************************************)
MinutesPerDay == 1440

\* 2023-01-15, an ordinary winter day (CET all day)
PlainDay == 14

\* 2023-03-26: 02:00 CET is followed by 03:00 CEST, 02:00..02:59 do not exist
SpringDay == 84

\* 2023-10-29: 03:00 CEST is followed by 02:00 CET, 02:00..02:59 occur twice
FallDay == 301

CET == 60

CEST == 120

At(day, hour, minute) == day * MinutesPerDay + hour * 60 + minute

Minute(t) == t % 60

\* wall-clock minutes that no instant of the zone shows
NonExistent(t) == At(SpringDay, 2, 0) <= t /\ t < At(SpringDay, 3, 0)

\* wall-clock minutes that two instants of the zone show
Ambiguous(t) == At(FallDay, 2, 0) <= t /\ t < At(FallDay, 3, 0)

\* daylight-saving time is in force at the unambiguous wall-clock minute t
InSummer(t) == At(SpringDay, 3, 0) <= t /\ t < At(FallDay, 2, 0)

NonExistentTimeError == [err |-> "NonExistentTimeError", wall |-> 0, dst |-> FALSE]

\* pandas Timestamp.tz_localize(tz, ambiguous=flag), nonexistent='raise':
\* the flag says whether an ambiguous time is the daylight-saving one and is
\* ignored for every other time.
tz_localize(t, ambiguous) ==
    IF NonExistent(t) THEN NonExistentTimeError
    ELSE [err |-> None, wall |-> t,
          dst |-> IF Ambiguous(t) THEN ambiguous ELSE InSummer(t)]

\* the instant (UTC minutes) a localized timestamp denotes
Instant(l) == l.wall - (IF l.dst THEN CEST ELSE CET)

\* _adjust_tz with ambiguous=False in the aligned branch too
adjust_tz_second_pass(t) ==
    LET delta == Minute(t) % 15
    IN  IF delta = 0
        THEN tz_localize(t, FALSE)
        ELSE tz_localize(t - (delta + 15 * (4 - delta)), FALSE)

\* _adjust_tz with the shift grouped as (delta + 15) * (4 - delta) minutes
adjust_tz_misgrouped(t) ==
    LET delta == Minute(t) % 15
    IN  IF delta = 0
        THEN tz_localize(t, TRUE)
        ELSE tz_localize(t - ((delta + 15) * (4 - delta)), FALSE)

\* _adjust_tz with a shift of delta + 15*4 minutes: back to the quarter-hour
\* boundary and one hour more
adjust_tz_hour_back(t) ==
    LET delta == Minute(t) % 15
    IN  IF delta = 0
        THEN tz_localize(t, TRUE)
        ELSE tz_localize(t - (delta + 15 * 4), FALSE)

_adjust_tz(t) ==
    LET delta == Minute(t) % 15
    IN  IF delta = 0
        THEN tz_localize(t, TRUE)
        ELSE tz_localize(t - (delta + 15 * (4 - delta)), FALSE)

(***************************************************************************)
(* The response transformer: the 200 branch of _base_request.  A payload   *)
(* is [result, key, cols, rows]: whether the status field 'result' and the *)
(* data-bearing key are present, the columns of the rows, and per row the  *)
(* value of its Date or Year column (its position when it has neither).    *)
(***************************************************************************)
Outcome(kind, index, columns) == [kind |-> kind, index |-> index, columns |-> columns]

NoTable == Outcome("None", <<>>, {})

Raised(exception) == Outcome(exception, <<>>, {})

DataFrame(index, columns) == Outcome("DataFrame", index, columns)

NotRun == Outcome("not run", <<>>, {})

RECURSIVE Insert(_, _)
\* l put into the ascending sequence s, ordered by instant
Insert(l, s) ==
    IF s = <<>> THEN <<l>>
    ELSE IF Instant(l) <= Instant(Head(s)) THEN <<l>> \o s
    ELSE <<Head(s)>> \o Insert(l, Tail(s))

\* sort_values left out: the rows in payload order
unsorted(s) == s

RECURSIVE sort_values(_)
\* df.sort_values(by='Date'): the rows in ascending order of their instants
sort_values(s) == IF s = <<>> THEN <<>> ELSE Insert(Head(s), sort_values(Tail(s)))

\* the transformer with an "if df.empty: return None" before the indexing
transform_empty_is_none(js) ==
    IF ~js.result THEN NoTable
    ELSE IF ~js.key THEN Raised("IndexError")
    ELSE IF js.rows = <<>> THEN NoTable
    ELSE LET n == Len(js.rows)
         IN  IF "Date" \in js.cols
             THEN LET mapped == [i \in 1..n |-> _adjust_tz(js.rows[i])]
                  IN  IF \E i \in 1..n : mapped[i].err # None
                      THEN Raised("NonExistentTimeError")
                      ELSE DataFrame(sort_values(mapped), js.cols \ {"Date"})
             ELSE IF "Year" \in js.cols
             THEN DataFrame(js.rows, js.cols \ {"Year"})
             ELSE DataFrame([i \in 1..n |-> i - 1], js.cols)

transform(js) ==
    IF ~js.result THEN NoTable
    ELSE IF ~js.key THEN Raised("IndexError")
    ELSE LET columns == IF js.rows = <<>> THEN {} ELSE js.cols
             n == Len(js.rows)
         IN  IF "Date" \in columns
             THEN LET mapped == [i \in 1..n |-> _adjust_tz(js.rows[i])]
                  IN  IF \E i \in 1..n : mapped[i].err # None
                      THEN Raised("NonExistentTimeError")
                      ELSE DataFrame(sort_values(mapped), columns \ {"Date"})
             ELSE IF "Year" \in columns
             THEN DataFrame(js.rows, columns \ {"Year"})
             ELSE DataFrame([i \in 1..n |-> i - 1], columns)

Payload(result, key, cols, rows) ==
    [result |-> result, key |-> key, cols |-> cols, rows |-> rows]

(***************************************************************************)
(* Bounds and input sets.                                                  *)
(***************************************************************************)
\* the normalizer is run on every minute of the hours 00..MaxHour
MaxHour == 3

\* the transformer is run on payloads of at most MaxRows rows
MaxRows == 2

Days == {PlainDay, SpringDay, FallDay}

TzInputs == {At(d, h, m) : d \in Days, h \in 0..MaxHour, m \in 0..59}

TableMinutes == {0, 15, 1, 16}

TableDates == {At(d, h, m) : d \in Days, h \in {2, 3}, m \in TableMinutes}

SeqsUpTo(S, n) == UNION {[1..k -> S] : k \in 0..n}

Payloads ==
    {Payload(r, FALSE, {}, <<>>) : r \in BOOLEAN}
    \cup {Payload(r, TRUE, {"Date", "Value"}, rows) :
            r \in BOOLEAN, rows \in SeqsUpTo(TableDates, MaxRows)}
    \cup {Payload(r, TRUE, {"Year", "Value"}, rows) :
            r \in BOOLEAN, rows \in SeqsUpTo({2022, 2023}, MaxRows)}
    \cup {Payload(r, TRUE, {"Value"}, rows) :
            r \in BOOLEAN, rows \in SeqsUpTo({0}, MaxRows)}

(***************************************************************************)
(* The client.                                                             *)
(***************************************************************************)
\* a statement, the wake-up from a sleep and an HTTP response each take at
\* most MaxDelay ticks
MaxDelay == 1

\* RATE_LIMIT = 1.1 seconds
RATE_LIMIT == 11

\* datetime.timedelta(seconds=5)
TokenMargin == 50

\* time.monotonic() - 1
InitialLag == 10

\* datetime.datetime.now() and time.monotonic(): the present
Now == 0

Callers == {"A", "B"}

\* the caller of a sequential run
MainCaller == "A"

Tokens == {"tokA", "tokB"}

\* expires_in of a credential-exchange response, tenths of a second
ExpiresIn == {10, 70}

StatusCodes == {200, 204, 304, 404, 429, 500, 502, 503, 504}

Timeouts == {None, "3s"}

\* payloads of the data responses of a client run
ClientPayloads ==
    {Payload(r, FALSE, {}, <<>>) : r \in BOOLEAN}
    \cup {Payload(TRUE, TRUE, {"Date", "Value"}, rows) :
            rows \in {<<>>, <<At(PlainDay, 3, 1), At(PlainDay, 2, 0)>>}}

\* a call as the transport saw it: its kind, its send time, whether a call was
\* sent before it and how long before, the timeout it was given, its bearer
\* token and whether the client's expiry for that token was still ahead
NoCall ==
    [kind |-> "none", at |-> Now - RATE_LIMIT, after |-> FALSE, gap |-> RATE_LIMIT,
     timeout |-> None, bearer |-> None, valid |-> FALSE]

NoCalls == [post |-> 0, get |-> 0]

ApiKeys == {None, "key"}

ApiSecrets == {None, "secret"}

\* __init__ that tests the key only
init_tests_key_only(key, secret, tmo) ==
    /\ api_key = key
    /\ api_secret = secret
    /\ raised = IF key = None THEN "TypeError" ELSE None
    /\ timeout = tmo
    /\ token = None
    /\ token_expiration = Now
    /\ time_of_last_request = Now - InitialLag

\* the state __init__(key, secret, timeout=tmo) leaves
__init__(key, secret, tmo) ==
    /\ api_key = key
    /\ api_secret = secret
    /\ raised = IF key = None \/ secret = None THEN "TypeError" ELSE None
    /\ timeout = tmo
    /\ token = None
    /\ token_expiration = Now
    /\ time_of_last_request = Now - InitialLag

\* a constructor call, and nobody has used the client yet
ClientInit ==
    /\ \E key \in ApiKeys, secret \in ApiSecrets, tmo \in Timeouts :
          __init__(key, secret, tmo)
    /\ pc = [c \in Callers |-> "idle"]
    /\ wake = [c \in Callers |-> Now]
    /\ delay = [c \in Callers |-> 0]
    /\ access_token = [c \in Callers |-> None]
    /\ calls = [c \in Callers |-> NoCalls]
    /\ ret = [c \in Callers |-> NotRun]
    /\ lastCall = NoCall

NoRun ==
    /\ dt = 0
    /\ adjusted = NonExistentTimeError
    /\ json = Payload(FALSE, FALSE, {}, <<>>)
    /\ df = NotRun

Init == ClientInit /\ NoRun

\* the stored time t one tick later; it stops ageing at oldest
Older(t, oldest) == IF t > oldest THEN t - 1 ELSE oldest

\* caller c is in a fetch and not asleep
Busy(c) == pc[c] # "idle" /\ ~(pc[c] \in {"rt_post", "br_get"} /\ wake[c] > Now)

\* a tenth of a second passes
Tick ==
    /\ \A c \in Callers : Busy(c) => delay[c] < MaxDelay
    /\ delay' = [c \in Callers |-> IF Busy(c) THEN delay[c] + 1 ELSE delay[c]]
    /\ time_of_last_request' = Older(time_of_last_request, Now - RATE_LIMIT)
    /\ token_expiration' = Older(token_expiration, Now - TokenMargin - 1)
    /\ wake' = [c \in Callers |-> Older(wake[c], Now)]
    /\ lastCall' = [lastCall EXCEPT !.at = Older(@, Now - RATE_LIMIT)]
    /\ UNCHANGED <<timeout, token, pc, access_token, calls, ret, argVars, runVars>>

\* a public operation (get_total_load, ...) calls _base_request
Fetch(c) ==
    /\ raised = None
    /\ pc[c] = "idle"
    /\ pc' = [pc EXCEPT ![c] = "rt_check"]
    /\ calls' = [calls EXCEPT ![c] = NoCalls]
    /\ ret' = [ret EXCEPT ![c] = NotRun]
    /\ UNCHANGED <<timeout, token, token_expiration, time_of_last_request, wake,
                   delay, access_token, lastCall, argVars, runVars>>

\* the test of _request_token for the cached token
CachedTokenUsable == token_expiration + TokenMargin < Now /\ token # None

\* _request_token: return the cached token or go on to the exchange
RequestTokenCheck(c) ==
    /\ pc[c] = "rt_check"
    /\ delay' = [delay EXCEPT ![c] = 0]
    /\ IF CachedTokenUsable
       THEN /\ access_token' = [access_token EXCEPT ![c] = token]
            /\ pc' = [pc EXCEPT ![c] = "br_throttle"]
       ELSE /\ pc' = [pc EXCEPT ![c] = "rt_throttle"]
            /\ UNCHANGED access_token
    /\ UNCHANGED <<timeout, token, token_expiration, time_of_last_request, wake,
                   calls, ret, lastCall, argVars, runVars>>

\* the end of the sleep the rate limiter asks for, computed before a call
WakeTime ==
    LET time_elapsed == Now - time_of_last_request
    IN  IF time_elapsed < RATE_LIMIT THEN Now + (RATE_LIMIT - time_elapsed) ELSE Now

\* _request_token: the rate limiter before the POST
TokenThrottle(c) ==
    /\ pc[c] = "rt_throttle"
    /\ delay' = [delay EXCEPT ![c] = 0]
    /\ wake' = [wake EXCEPT ![c] = WakeTime]
    /\ pc' = [pc EXCEPT ![c] = "rt_post"]
    /\ UNCHANGED <<timeout, token, token_expiration, time_of_last_request,
                   access_token, calls, ret, lastCall, argVars, runVars>>

\* the timeout session.post and session.get are called with: the keyword is
\* not passed, and requests then waits without limit
RequestTimeout == None

\* the call the transport sends now
Sent(kind, bearer) ==
    [kind |-> kind, at |-> Now, after |-> lastCall.kind # "none",
     gap |-> Now - lastCall.at, timeout |-> RequestTimeout, bearer |-> bearer,
     valid |-> bearer # None /\ token_expiration > Now]

\* _request_token: the sleep is over and session.post sends the exchange
Post(c) ==
    /\ pc[c] = "rt_post"
    /\ delay' = [delay EXCEPT ![c] = 0]
    /\ Now >= wake[c]
    /\ lastCall' = Sent("POST", None)
    /\ calls' = [calls EXCEPT ![c].post = @ + 1]
    /\ pc' = [pc EXCEPT ![c] = "rt_wait"]
    /\ UNCHANGED <<timeout, token, token_expiration, time_of_last_request, wake,
                   access_token, ret, argVars, runVars>>

\* _request_token with an except clause that logs and does not re-raise: the
\* method returns None after an error status
TokenResponseNoRaise(c, status, tok, expires_in) ==
    /\ pc[c] = "rt_wait"
    /\ delay' = [delay EXCEPT ![c] = 0]
    /\ time_of_last_request' = Now
    /\ IF status = 200
       THEN /\ token_expiration' = Now + expires_in
            /\ token' = tok
            /\ access_token' = [access_token EXCEPT ![c] = tok]
       ELSE /\ access_token' = [access_token EXCEPT ![c] = None]
            /\ UNCHANGED <<token, token_expiration>>
    /\ pc' = [pc EXCEPT ![c] = "br_throttle"]
    /\ UNCHANGED <<timeout, wake, calls, ret, lastCall, argVars, runVars>>

\* _request_token that stores access_token and the expiry of the body before
\* it looks at the status: an answer that is not a 200 clears the token
TokenResponseStoresFirst(c, status, tok, expires_in) ==
    /\ pc[c] = "rt_wait"
    /\ delay' = [delay EXCEPT ![c] = 0]
    /\ time_of_last_request' = Now
    /\ IF status >= 400
       THEN /\ ret' = [ret EXCEPT ![c] = Raised("HTTPError")]
            /\ pc' = [pc EXCEPT ![c] = "idle"]
            /\ UNCHANGED <<token, token_expiration, access_token>>
       ELSE IF status = 200
       THEN /\ token_expiration' = Now + expires_in
            /\ token' = tok
            /\ access_token' = [access_token EXCEPT ![c] = tok]
            /\ pc' = [pc EXCEPT ![c] = "br_throttle"]
            /\ UNCHANGED ret
       ELSE /\ token' = None
            /\ access_token' = [access_token EXCEPT ![c] = None]
            /\ pc' = [pc EXCEPT ![c] = "br_throttle"]
            /\ UNCHANGED <<token_expiration, ret>>
    /\ UNCHANGED <<timeout, wake, calls, lastCall, argVars, runVars>>

\* _request_token: the exchange's response arrives
TokenResponse(c, status, tok, expires_in) ==
    /\ pc[c] = "rt_wait"
    /\ delay' = [delay EXCEPT ![c] = 0]
    /\ time_of_last_request' = Now
    /\ IF status >= 400
       THEN /\ ret' = [ret EXCEPT ![c] = Raised("HTTPError")]
            /\ pc' = [pc EXCEPT ![c] = "idle"]
            /\ UNCHANGED <<token, token_expiration, access_token>>
       ELSE IF status = 200
       THEN /\ token_expiration' = Now + expires_in
            /\ token' = tok
            /\ access_token' = [access_token EXCEPT ![c] = tok]
            /\ pc' = [pc EXCEPT ![c] = "br_throttle"]
            /\ UNCHANGED ret
       ELSE /\ access_token' = [access_token EXCEPT ![c] = None]
            /\ pc' = [pc EXCEPT ![c] = "br_throttle"]
            /\ UNCHANGED <<token, token_expiration, ret>>
    /\ UNCHANGED <<timeout, wake, calls, lastCall, argVars, runVars>>

\* _request_token: session.post raises (connection error): not an HTTPError
TokenTransportError(c) ==
    /\ pc[c] = "rt_wait"
    /\ delay' = [delay EXCEPT ![c] = 0]
    /\ ret' = [ret EXCEPT ![c] = Raised("ConnectionError")]
    /\ pc' = [pc EXCEPT ![c] = "idle"]
    /\ UNCHANGED <<timeout, token, token_expiration, time_of_last_request, wake,
                   access_token, calls, lastCall, argVars, runVars>>

\* _base_request: the rate limiter before the GET
BaseThrottle(c) ==
    /\ pc[c] = "br_throttle"
    /\ delay' = [delay EXCEPT ![c] = 0]
    /\ wake' = [wake EXCEPT ![c] = WakeTime]
    /\ pc' = [pc EXCEPT ![c] = "br_get"]
    /\ UNCHANGED <<timeout, token, token_expiration, time_of_last_request,
                   access_token, calls, ret, lastCall, argVars, runVars>>

\* _base_request: the sleep is over and session.get sends the data call
Get(c) ==
    /\ pc[c] = "br_get"
    /\ delay' = [delay EXCEPT ![c] = 0]
    /\ Now >= wake[c]
    /\ lastCall' = Sent("GET", access_token[c])
    /\ calls' = [calls EXCEPT ![c].get = @ + 1]
    /\ pc' = [pc EXCEPT ![c] = "br_wait"]
    /\ UNCHANGED <<timeout, token, token_expiration, time_of_last_request, wake,
                   access_token, ret, argVars, runVars>>

\* _base_request: the data response arrives and is transformed
DataResponse(c, status, payload) ==
    /\ pc[c] = "br_wait"
    /\ delay' = [delay EXCEPT ![c] = 0]
    /\ time_of_last_request' = Now
    /\ ret' = [ret EXCEPT ![c] = IF status >= 400 THEN Raised("HTTPError")
                                 ELSE IF status = 200 THEN transform(payload)
                                 ELSE NoTable]
    /\ pc' = [pc EXCEPT ![c] = "idle"]
    /\ access_token' = [access_token EXCEPT ![c] = None]
    /\ UNCHANGED <<timeout, token, token_expiration, wake, calls, lastCall, argVars, runVars>>

\* _base_request: session.get raises (connection error): not an HTTPError
DataTransportError(c) ==
    /\ pc[c] = "br_wait"
    /\ delay' = [delay EXCEPT ![c] = 0]
    /\ ret' = [ret EXCEPT ![c] = Raised("ConnectionError")]
    /\ pc' = [pc EXCEPT ![c] = "idle"]
    /\ access_token' = [access_token EXCEPT ![c] = None]
    /\ UNCHANGED <<timeout, token, token_expiration, time_of_last_request, wake,
                   calls, lastCall, argVars, runVars>>

\* one step of caller c
Step(c) ==
    \/ RequestTokenCheck(c)
    \/ TokenThrottle(c)
    \/ Post(c)
    \/ \E status \in StatusCodes, tok \in Tokens, expires_in \in ExpiresIn :
          TokenResponse(c, status, tok, expires_in)
    \/ TokenTransportError(c)
    \/ BaseThrottle(c)
    \/ Get(c)
    \/ \E status \in StatusCodes, payload \in ClientPayloads :
          DataResponse(c, status, payload)
    \/ DataTransportError(c)

\* a sequential run: one caller, one fetch after the other
Next ==
    \/ Tick
    \/ Fetch(MainCaller)
    \/ Step(MainCaller)

Spec == Init /\ [][Next]_vars

\* caller c starts its one fetch of a concurrent run
ConcurrentFetch(c) ==
    /\ ret[c] = NotRun
    /\ Fetch(c)

\* a concurrent run: the callers share the client and each runs one fetch, the
\* statements of the two fetches interleaved in any order; the code takes no
\* lock anywhere
NextConc ==
    \/ Tick
    \/ \E c \in Callers : ConcurrentFetch(c)
    \/ \E c \in Callers : Step(c)

SpecConc == Init /\ [][NextConc]_vars

(***************************************************************************)
(* Runs of the timestamp normalizer and of the response transformer on     *)
(* their own, over all inputs of the bounded input sets.                   *)
(***************************************************************************)
NotAdjusted == [err |-> "not run", wall |-> 0, dst |-> FALSE]

InitTz ==
    /\ ClientInit
    /\ dt \in TzInputs
    /\ adjusted = NotAdjusted
    /\ json = Payload(FALSE, FALSE, {}, <<>>)
    /\ df = NotRun

\* df['Date'].map(lambda x: _adjust_tz(x, tz="Europe/Rome")) on one value
Adjust ==
    /\ adjusted = NotAdjusted
    /\ adjusted' = _adjust_tz(dt)
    /\ UNCHANGED <<clientVars, dt, json, df>>

NextTz == Adjust

SpecTz == InitTz /\ [][NextTz]_vars

InitTable ==
    /\ ClientInit
    /\ dt = 0
    /\ adjusted = NotAdjusted
    /\ json \in Payloads
    /\ df = NotRun

\* the 200 branch of _base_request on one payload
Transform ==
    /\ df = NotRun
    /\ df' = transform(json)
    /\ UNCHANGED <<clientVars, dt, adjusted, json>>

NextTable == Transform

SpecTable == InitTable /\ [][NextTable]_vars

(***************************************************************************)
(* Claims about the response transformer, checked under SpecTable.         *)
(***************************************************************************)
Transformed == df # NotRun

\* a payload with the status field, the data key and N >= 1 rows with a Date
DatePayload ==
    json.result /\ json.key /\ "Date" \in json.cols /\ json.rows # <<>>

StrictlyAscending(index) ==
    \A i, j \in 1..Len(index) : i < j => Instant(index[i]) < Instant(index[j])

Ascending(index) ==
    \A i, j \in 1..Len(index) : i < j => Instant(index[i]) <= Instant(index[j])

\* the quarter-hour boundary at or before t
Floor15(t) == t - (t % 15)

\* the wall-clock time of the index entry of a row with Date t
ShiftedWall(t) == IF t % 15 = 0 THEN t ELSE Floor15(t) + 15 * ((t % 15) - 4)

\* C6 as claimed: a 200 payload without the data-bearing key, with or without
\* the status field, gives "no table" and no exception.
C6_MissingKeyIsNoTable == (Transformed /\ ~json.key) => df = NoTable

\* C7 as claimed: a 200 payload whose data key holds an empty array of rows
\* gives "no table" (None), as a missing data key does.
C7_ZeroRowsIsNoTable == (Transformed /\ json.key /\ json.rows = <<>>) => df = NoTable

\* C7 as amended: with the status field present, a data key holding an empty
\* array gives a table object with no rows and no columns, not None; None is
\* returned only when the status field is missing from the payload.
C7_ZeroRowsIsEmptyTable ==
    (Transformed /\ json.key /\ json.rows = <<>>) =>
        IF json.result THEN df = DataFrame(<<>>, {}) ELSE df = NoTable

C7_Witness ==
    /\ json = Payload(TRUE, TRUE, {"Date", "Value"}, <<>>)
    /\ df.kind = "DataFrame"
    /\ Len(df.index) = 0

\* C8 as claimed: a payload of N rows with a Date column, whatever the local
\* times, gives a table of N rows whose index entries are pairwise distinct
\* and ascending, without a Date column.
C8_UniqueAscendingIndex ==
    (Transformed /\ DatePayload /\ df.kind = "DataFrame") =>
        /\ Len(df.index) = Len(json.rows)
        /\ StrictlyAscending(df.index)
        /\ "Date" \notin df.columns

\* C8 as amended: when every adjusted wall-clock time exists in Europe/Rome,
\* the table has N rows, its index holds the N adjusted timestamps in
\* ascending order of their instants, equal instants side by side, and it has
\* no Date column; when an adjusted time falls into the spring-forward gap the
\* localization raises and there is no table.
C8_AscendingIndex ==
    (Transformed /\ DatePayload) =>
        IF \E i \in 1..Len(json.rows) : NonExistent(ShiftedWall(json.rows[i]))
        THEN df = Raised("NonExistentTimeError")
        ELSE /\ df.kind = "DataFrame"
             /\ Len(df.index) = Len(json.rows)
             /\ Ascending(df.index)
             /\ "Date" \notin df.columns
             /\ \A w \in {ShiftedWall(json.rows[i]) : i \in 1..Len(json.rows)} :
                    Cardinality({i \in 1..Len(json.rows) : ShiftedWall(json.rows[i]) = w})
                    = Cardinality({i \in 1..Len(df.index) : df.index[i].wall = w})

\* two rows out of order in the payload, in order in the table
C8_Witness ==
    /\ DatePayload
    /\ df.kind = "DataFrame"
    /\ Len(df.index) = 2
    /\ json.rows[1] > json.rows[2]
    /\ Instant(df.index[1]) < Instant(df.index[2])

(***************************************************************************)
(* Claims about the timestamp normalizer, checked under SpecTz.            *)
(***************************************************************************)
Misaligned == adjusted # NotAdjusted /\ Minute(dt) % 15 # 0

\* C10 as claimed: for a minute with delta # 0 the adjusted wall-clock time is
\* the input floored to 15 minutes, minus 60 minutes.
C10_FloorMinusHour ==
    (Misaligned /\ adjusted.err = None) => adjusted.wall = Floor15(dt) - 60

\* C10 as amended: for a minute with delta # 0 the adjusted wall-clock time is
\* the input floored to 15 minutes, moved by delta - 4 quarter-hours (back for
\* delta < 4, not at all for delta = 4, forward for delta > 4); a time in the
\* spring-forward gap makes the localization raise.
C10_FloorPlusDeltaQuarters ==
    Misaligned =>
        LET wall == Floor15(dt) + 15 * ((Minute(dt) % 15) - 4)
        IN  IF NonExistent(wall) THEN adjusted = NonExistentTimeError
            ELSE adjusted.err = None /\ adjusted.wall = wall

\* minute 37: delta = 7, and the result is 38 minutes after the input
C10_Witness ==
    /\ Minute(dt) = 37
    /\ adjusted.err = None
    /\ adjusted.wall = dt + 38

(***************************************************************************)
(* Claims about the client, checked under Spec.                            *)
(***************************************************************************)
\* the cached credential expires more than 5 seconds from now
FreshCredential == token # None /\ token_expiration > Now + TokenMargin

\* there is no cached credential, or it expires less than 5 seconds from now
\* or has expired
StaleCredential == token = None \/ token_expiration < Now + TokenMargin

\* caller c leaves the first statement of _request_token
LeavesCheck(c) == pc[c] = "rt_check" /\ pc'[c] # "rt_check"

\* C1 as claimed: with a cached credential that expires more than 5 seconds
\* from now, _request_token returns the cached token and sends no HTTP call.
C1_TokenReuse ==
    [][\A c \in Callers :
          (LeavesCheck(c) /\ FreshCredential) =>
              /\ pc'[c] = "br_throttle"
              /\ access_token'[c] = token
              /\ lastCall' = lastCall]_vars

\* C2 as claimed: with no cached credential, or one that expires less than 5
\* seconds from now or has expired, _request_token goes on to the one
\* credential exchange, and a successful exchange replaces the token and sets
\* the expiry to now + expires_in.
C2_TokenRenewal ==
    [][\A c \in Callers :
          /\ (LeavesCheck(c) /\ StaleCredential) => pc'[c] = "rt_throttle"
          /\ calls'[c].post <= 1
          /\ \A tok \in Tokens, expires_in \in ExpiresIn :
                TokenResponse(c, 200, tok, expires_in) =>
                    token' = tok /\ token_expiration' = Now + expires_in]_vars

\* C3 as claimed: every data GET carries a token that is not null and whose
\* expiry is ahead at the time the GET is sent.
C3_GetCarriesValidToken ==
    lastCall.kind = "GET" => (lastCall.bearer # None /\ lastCall.valid)

\* C4 as claimed: an HTTP call that follows another one, whatever became of
\* the earlier one, is sent at least 1.1 seconds after it.
C4_CallsSpaced == lastCall.after => lastCall.gap >= RATE_LIMIT

\* a response with an error status: the ones raise_for_status raises for
ErrorStatus(status) == status >= 400

C9_CallsCarryTimeout == lastCall.kind # "none" => lastCall.timeout = timeout


(***************************************************************************)
(* More claims about the timestamp normalizer, checked under SpecTz.       *)
(***************************************************************************)
Aligned == adjusted # NotAdjusted /\ Minute(dt) \in {0, 15, 30, 45}

HourStart(t) == t - Minute(t)

\* C16: the wall-clock time the normalizer returns has a minute in
\* {0, 15, 30, 45}, for every minute 0..59 of the input; for a minute
\* 15k + delta with delta # 0 it is 15 * (k + delta - 4) minutes after the
\* start of the input's hour.
C16_ResultQuarterAligned ==
    (adjusted # NotAdjusted /\ adjusted.err = None) =>
        /\ Minute(adjusted.wall) \in {0, 15, 30, 45}
        /\ LET k == Minute(dt) \div 15
               delta == Minute(dt) - 15 * k
           IN  delta # 0 => adjusted.wall = HourStart(dt) + 15 * (k + delta - 4)

\* minute 59 = 15*3 + 14: 195 minutes after the start of the hour
C16_Witness ==
    /\ Minute(dt) = 59
    /\ adjusted.err = None
    /\ adjusted.wall = HourStart(dt) + 195
    /\ Minute(adjusted.wall) = 15


(***************************************************************************)
(* Claims about the construction, checked under Spec.                      *)
(***************************************************************************)
\* C13: a constructor call with a null key or a null secret raises, and as
\* there is no client then, no fetch ever starts and no HTTP call is ever sent.
C13_NullCredentialRaises ==
    (api_key = None \/ api_secret = None) =>
        /\ raised = "TypeError"
        /\ lastCall = NoCall
        /\ token = None
        /\ \A c \in Callers : pc[c] = "idle" /\ calls[c] = NoCalls /\ ret[c] = NotRun

\* a constructor call with a key and a null secret
C13_Witness == api_key # None /\ api_secret = None /\ raised = "TypeError"


(***************************************************************************)
(* Claims about the last-dispatch time and the credential slot, checked    *)
(* under Spec.                                                             *)
(***************************************************************************)
\* the HTTP call caller c waits for comes to its end, with a response or with
\* an exception of the transport
CallEnds(c) == pc[c] \in {"rt_wait", "br_wait"} /\ pc'[c] # pc[c]

\* C14 as claimed: when an HTTP call that was sent ends, with a success, an
\* error status or a failure of the transport, the last-dispatch time is set
\* to the present.
C14_DispatchTimeAlwaysRecorded ==
    [][\A c \in Callers : CallEnds(c) => time_of_last_request' = Now]_vars

\* C15: an exchange that is answered with anything but a 200, or that fails in
\* the transport, leaves token and expiry as they were; and whatever step
\* changes the token or the expiry is a successful exchange, which sets the
\* token to the one of the answer and the expiry to now + expires_in.
C15_FailedExchangeKeepsCredential ==
    [][/\ \A c \in Callers :
            /\ \A status \in StatusCodes \ {200} :
                  (\E tok \in Tokens, expires_in \in ExpiresIn :
                        TokenResponse(c, status, tok, expires_in))
                  => (token' = token /\ token_expiration' = token_expiration)
            /\ TokenTransportError(c)
                  => (token' = token /\ token_expiration' = token_expiration)
       /\ \/ token' = token /\ token_expiration' = token_expiration
          \/ Tick
          \/ \E c \in Callers, tok \in Tokens, expires_in \in ExpiresIn :
                /\ TokenResponse(c, 200, tok, expires_in)
                /\ token' = tok
                /\ token_expiration' = Now + expires_in]_vars

\* a cached token that is still there after an exchange failed with an error
\* status
C15_Witness ==
    /\ ret[MainCaller] = Raised("HTTPError")
    /\ calls[MainCaller] = [post |-> 1, get |-> 0]
    /\ token # None
    /\ token_expiration > Now


(***************************************************************************)
(* Claims about concurrent use, checked under SpecConc.                    *)
(***************************************************************************)
\* caller c found no usable credential and has its exchange in flight
Exchanging(c) == pc[c] = "rt_wait"

\* caller c has passed the rate-limit check and has its call in flight
InFlight(c) == pc[c] \in {"rt_wait", "br_wait"}

\* C12 as claimed: whatever the interleaving of two concurrent fetches, the
\* two callers never both find the credential unusable and both exchange, and
\* never both pass the rate-limit check and send less than 1.1 seconds apart.
C12_SharedStateSerialized ==
    \A c1, c2 \in Callers :
        c1 # c2 =>
            /\ ~(Exchanging(c1) /\ Exchanging(c2))
            /\ ~(InFlight(c1) /\ InFlight(c2) /\ lastCall.gap < RATE_LIMIT)

====
